---- MODULE Spec2Model ----
(***************************************************************************)
(* Zen digital bracelet: the gesture source of App.tsx (camera setup,      *)
(* landmarker, predict loop, teardown) and the scene of DigitalBracelet    *)
(* (Mapper, Beads, floating-letter pool), as one state machine.            *)
(*                                                                         *)
(* Numbers are fixed point.  Speeds are in 1/1000 (2.0 is 2000), hand      *)
(* distances in 1/100 (0.18 is 18), smoothing factors in 1/1000 (0.05 is   *)
(* 50), times in milliseconds, letter displacements in 1/10, letter        *)
(* rotations in steps of 0.01 rad.  A product that is not a whole number   *)
(* of units is rounded down.                                               *)
(***************************************************************************)
EXTENDS Integers, Sequences, FiniteSets, TLC

VARIABLES
    \* ---- App.tsx ----
    appMounted,        \* the App effect has not been cleaned up yet
    setupPc,           \* where the asynchronous setup of the effect stands
    stream,            \* the camera MediaStream: "none", "live", "ended", "stopped"
    srcObject,         \* videoRef.current.srcObject holds the stream
    videoReady,        \* videoRef.current.readyState >= 2
    landmarker,        \* the effect's landmarker variable is set
    animationFrameId,  \* a predict callback is scheduled
    handDistance,      \* useState(0.1)
    isHandPresent,     \* useState(false)
    loading,           \* useState(true)
    error,             \* useState(null): TRUE when a message is set
    lastPredict,       \* how the guard of the last predict run went:
                       \* "none" (no run yet), "signal", "blind"
    \* ---- DigitalBracelet ----
    rotationSpeedRef,  \* MotionState.rotationSpeed
    isScatteredRef,    \* MotionState.scattered
    propHandDistance,  \* handDistance as of the last render
    propIsHandPresent, \* isHandPresent as of the last render
    rotationVal,       \* the Beads' rotationVal prop
    isScattered,       \* the Beads' isScattered prop
    renderPending,     \* a state update waits for React to render
    backgroundLetters, \* useState([]) of the pool, as committed
    updateQueue,       \* setBackgroundLetters calls not yet rendered
    ambientDone,       \* the mount effect of the pool has run
    emitSeq,           \* letters created by handleEmitLetter so far
    \* ---- Bead ----
    sinceLastEmit,     \* per bead: clock.elapsedTime - lastEmitRef.current
    letters,           \* per bead, per letter: offset from rest, tumble
    clockDelta,        \* the delta the render loop gave the last frame, in ms
    frames             \* frames rendered so far

appVars == <<appMounted, setupPc, stream, srcObject, videoReady, landmarker,
             animationFrameId, handDistance, isHandPresent, loading, error,
             lastPredict>>
motionVars == <<rotationSpeedRef, isScatteredRef>>
propVars == <<propHandDistance, propIsHandPresent, rotationVal, isScattered>>
poolVars == <<backgroundLetters, updateQueue, ambientDone, emitSeq>>
beadVars == <<sinceLastEmit, letters, clockDelta>>
vars == <<appVars, motionVars, propVars, renderPending, poolVars, beadVars, frames>>

-----------------------------------------------------------------------------
\* Program constants
BEAD_COUNT == 12
LETTERS_PER_BEAD == 24
PINCH_THRESHOLD == 6
SCATTER_THRESHOLD == 18
AMBIENT_COUNT == 50
POOL_WINDOW == 80
DEFAULT_DISTANCE == 10
IDLE_SPEED == 200
PINCH_SPEED == 2000
EMIT_MIN_SPEED == 10
SCATTER_BASE == 5
SCATTER_AMPLITUDE == 2
INTENSITY_GAIN == 5

\* Bounds of the model
MaxFrames == 4
MaxEmit == 96
SinceCap == 5000
TumbleCap == 6
RestEpsilon == 1
ScatterFrames == 100

Beads == 1..BEAD_COUNT
LetterIdx == 1..LETTERS_PER_BEAD

\* Hand distances the landmarker reports: a pinch, in between, an open hand
Distances == {3, 12, 20}
\* Distances the scene is rendered with on its own: these and the two thresholds
SceneDistances == Distances \cup {PINCH_THRESHOLD, SCATTER_THRESHOLD}
\* What detectForVideo returns: no landmarks, or a hand at one of the distances
Detections == {[found |-> FALSE, distance |-> 0]} \cup
              {[found |-> TRUE, distance |-> d] : d \in Distances}
\* Time between two frames, in ms: a slow frame, and a long pause of the loop
Deltas == {500, 5000}
\* Values of 5 + sin(..) * 2 a frame can see: the two extremes
ScatterDists == {SCATTER_BASE - SCATTER_AMPLITUDE, SCATTER_BASE + SCATTER_AMPLITUDE}

Min(a, b) == IF a < b THEN a ELSE b
Max(a, b) == IF a > b THEN a ELSE b

-----------------------------------------------------------------------------
\* Lerp with the weight of x forgotten: x + t * y
LerpUnweighted(x, y, t) == x + (t * y) \div 1000

\* THREE.MathUtils.lerp(x, y, t) = (1 - t) * x + t * y, t in 1/1000
Lerp(x, y, t) == ((1000 - t) * x + t * y) \div 1000

\* Vector3.lerp(v, alpha) on one coordinate: x += (v - x) * alpha
LerpTo(x, v, alpha) == x + ((v - x) * alpha) \div 1000

\* Array.prototype.slice(start) for a negative start
SliceFrom(s, start) ==
    LET from == Max(Len(s) + start, 0)
    IN  SubSeq(s, from + 1, Len(s))

-----------------------------------------------------------------------------
\* The Mapper with the scatter threshold itself taken as an open hand
MapperInclusive(speed, present, distance) ==
    IF present
    THEN IF distance >= SCATTER_THRESHOLD
         THEN [scattered |-> TRUE, speed |-> Lerp(speed, 0, 100)]
         ELSE IF distance < PINCH_THRESHOLD
              THEN [scattered |-> FALSE, speed |-> Lerp(speed, PINCH_SPEED, 50)]
              ELSE [scattered |-> FALSE, speed |-> Lerp(speed, 0, 50)]
    ELSE [scattered |-> FALSE, speed |-> Lerp(speed, IDLE_SPEED, 50)]

\* The Mapper without its idle spin: an absent hand leaves the speed as it is
MapperIdleHalts(speed, present, distance) ==
    IF present
    THEN IF distance > SCATTER_THRESHOLD
         THEN [scattered |-> TRUE, speed |-> Lerp(speed, 0, 100)]
         ELSE IF distance < PINCH_THRESHOLD
              THEN [scattered |-> FALSE, speed |-> Lerp(speed, PINCH_SPEED, 50)]
              ELSE [scattered |-> FALSE, speed |-> Lerp(speed, 0, 50)]
    ELSE [scattered |-> FALSE, speed |-> speed]

\* Gesture-to-Motion Mapper: the useFrame callback of DigitalBracelet
Mapper(speed, present, distance) ==
    IF present
    THEN IF distance > SCATTER_THRESHOLD
         THEN [scattered |-> TRUE, speed |-> Lerp(speed, 0, 100)]
         ELSE IF distance < PINCH_THRESHOLD
              THEN [scattered |-> FALSE, speed |-> Lerp(speed, PINCH_SPEED, 50)]
              ELSE [scattered |-> FALSE, speed |-> Lerp(speed, 0, 50)]
    ELSE [scattered |-> FALSE, speed |-> Lerp(speed, IDLE_SPEED, 50)]

\* scatterIntensity={isHandPresent ? handDistance * 5 : 0}, in 1/100
ScatterIntensity(present, distance) ==
    IF present THEN distance * INTENSITY_GAIN ELSE 0

\* One BeadLetter for one frame.  The letter stays on the ray through its rest
\* position, so its position is its offset along that ray (in 1/10); tumble is
\* its x/y rotation minus the rest rotation, in steps of 0.01 rad, and stops
\* counting at TumbleCap.
AnimateLetter(l, scattered, intensity, scatterDist) ==
    IF scattered
    THEN [off    |-> LerpTo(l.off, (scatterDist * intensity) \div 10, 100),
          tumble |-> Min(l.tumble + 1, TumbleCap)]
    ELSE [off    |-> LerpTo(l.off, 0, 150),
          tumble |-> Lerp(l.tumble, 0, 100)]

\* A scatter that loses a letter: the last child is dropped while scattered
AnimateBeadDropping(ls, scattered, intensity, scatterDist) ==
    [i \in 1..(IF scattered THEN Len(ls) - 1 ELSE Len(ls)) |->
        AnimateLetter(ls[i], scattered, intensity, scatterDist)]

\* lettersRef.current.children.forEach: every letter the bead has is animated
\* in place; none is added or removed
AnimateBead(ls, scattered, intensity, scatterDist) ==
    [i \in DOMAIN ls |-> AnimateLetter(ls[i], scattered, intensity, scatterDist)]

\* The emit check without its interval: every eligible frame emits
ShouldEmitEveryFrame(rot, scattered, elapsed) ==
    rot > EMIT_MIN_SPEED /\ ~scattered

\* now - lastEmitRef.current > 1.0 / (rotationVal * 10 + 0.1), behind the gate
\* rotationVal > 0.01 && !isScattered; elapsed in ms, rot in 1/1000
ShouldEmit(rot, scattered, elapsed) ==
    /\ rot > EMIT_MIN_SPEED
    /\ ~scattered
    /\ elapsed * (rot + 10) > 100000

-----------------------------------------------------------------------------
\* Floating-letter pool
\* Every letter also carries seq, its place in the order of creation (the
\* ambient letters are -50..-1, the n-th emitted letter is n - 1)
AmbientLetter(i) == [id |-> <<"init", i>>, seq |-> i - AMBIENT_COUNT, origin |-> 0]
InitialBg == [i \in 1..AMBIENT_COUNT |-> AmbientLetter(i - 1)]

\* The values the beads of one frame get from Math.random() for their ids, in
\* ring order: all different, or the second bead's equal to the first's
DistinctDraws == [b \in Beads |-> b]
RandomDraws == {DistinctDraws, [b \in Beads |-> IF b = 2 THEN 1 ELSE b]}

\* The letter handleEmitLetter builds: id is `emit-${Date.now()}-${Math.random()}`
NewLetter(n, origin, now, rnd) ==
    [id |-> <<"emit", now, rnd>>, seq |-> n, origin |-> origin]

\* The updater without its cap: prev => [...prev, newLetter]
EmitUpdaterUncapped(prev, newLetter) == Append(prev, newLetter)

\* The updater keeping the oldest letters: prev => [...prev.slice(0, 80), newLetter]
EmitUpdaterOldest(prev, newLetter) ==
    Append(SubSeq(prev, 1, Min(Len(prev), POOL_WINDOW)), newLetter)

\* prev => [...prev.slice(-80), newLetter]
EmitUpdater(prev, newLetter) == Append(SliceFrom(prev, 0 - POOL_WINDOW), newLetter)

\* One queued setBackgroundLetters call, applied by React at render
ApplyUpdate(prev, u) ==
    IF u.fn = "set" THEN u.arg ELSE EmitUpdater(prev, u.arg)

\* Updates that overwrite each other: only the last queued call takes effect,
\* as with setBackgroundLetters([...backgroundLetters.slice(-80), newLetter])
ApplyUpdatesLastWins(prev, queue) ==
    IF queue = <<>> THEN prev
    ELSE ApplyUpdate(prev, queue[Len(queue)])

\* React applies the queued updaters in order, each to the result of the one before
RECURSIVE ApplyUpdates(_, _)
ApplyUpdates(prev, queue) ==
    IF queue = <<>> THEN prev
    ELSE ApplyUpdates(ApplyUpdate(prev, Head(queue)), Tail(queue))

\* handleEmitLetter(origin): queues the updater for a new letter
HandleEmitLetter(queue, n, origin, now, rnd) ==
    Append(queue, [fn |-> "emit", arg |-> NewLetter(n, origin, now, rnd)])

-----------------------------------------------------------------------------
\* DigitalBracelet and its Beads as first rendered: refs, props and state
SceneInit ==
    /\ rotationSpeedRef = 0
    /\ isScatteredRef = FALSE
    /\ propHandDistance = DEFAULT_DISTANCE
    /\ propIsHandPresent = FALSE
    /\ rotationVal = 0
    /\ isScattered = FALSE
    /\ renderPending = FALSE
    /\ backgroundLetters = <<>>
    /\ updateQueue = <<>>
    /\ ambientDone = FALSE
    /\ emitSeq = 0
    /\ sinceLastEmit = [b \in Beads |-> 0]
    /\ letters = [b \in Beads |-> [i \in LetterIdx |-> [off |-> 0, tumble |-> 0]]]
    /\ clockDelta = 0
    /\ frames = 0

\* The scene unmounted: its refs and state are gone (shown as their first values)
SceneDiscarded ==
    /\ rotationSpeedRef' = 0
    /\ isScatteredRef' = FALSE
    /\ propHandDistance' = DEFAULT_DISTANCE
    /\ propIsHandPresent' = FALSE
    /\ rotationVal' = 0
    /\ isScattered' = FALSE
    /\ renderPending' = FALSE
    /\ backgroundLetters' = <<>>
    /\ updateQueue' = <<>>
    /\ ambientDone' = FALSE
    /\ emitSeq' = 0
    /\ sinceLastEmit' = [b \in Beads |-> 0]
    /\ letters' = [b \in Beads |-> [i \in LetterIdx |-> [off |-> 0, tumble |-> 0]]]
    /\ clockDelta' = 0
    /\ frames' = 0

Init ==
    /\ appMounted = TRUE
    /\ setupPc = "getUserMedia"
    /\ stream = "none"
    /\ srcObject = FALSE
    /\ videoReady = FALSE
    /\ landmarker = FALSE
    /\ animationFrameId = FALSE
    /\ handDistance = DEFAULT_DISTANCE
    /\ isHandPresent = FALSE
    /\ loading = TRUE
    /\ error = FALSE
    /\ lastPredict = "none"
    /\ SceneInit

-----------------------------------------------------------------------------
\* App.tsx: the effect's asynchronous setup

\* What one run of predict leaves in (isHandPresent, handDistance); ref is
\* videoRef.current, lm the landmarker variable, res what detectForVideo finds
PredictBody(ref, lm, res) ==
    IF ref /\ videoReady /\ lm
    THEN IF res.found
         THEN [present |-> TRUE, distance |-> res.distance, guard |-> "signal"]
         ELSE [present |-> FALSE, distance |-> handDistance, guard |-> "signal"]
    ELSE [present |-> isHandPresent, distance |-> handDistance, guard |-> "blind"]

\* getUserMedia resolves
CameraGranted ==
    /\ setupPc = "getUserMedia"
    /\ stream' = "live"
    /\ IF appMounted
       THEN srcObject' = TRUE /\ setupPc' = "loadedmetadata"
       ELSE srcObject' = srcObject /\ setupPc' = "initLandmarker"
    /\ UNCHANGED <<appMounted, videoReady, landmarker, animationFrameId,
                   handDistance, isHandPresent, loading, error, lastPredict>>
    /\ UNCHANGED <<motionVars, propVars, renderPending, poolVars, beadVars, frames>>

\* getUserMedia rejects: the catch block, after which startPrediction still runs
CameraDenied ==
    /\ setupPc = "getUserMedia"
    /\ setupPc' = "initLandmarker"
    /\ IF appMounted
       THEN error' = TRUE /\ loading' = FALSE /\ renderPending' = TRUE
       ELSE UNCHANGED <<error, loading, renderPending>>
    /\ UNCHANGED <<appMounted, stream, srcObject, videoReady, landmarker,
                   animationFrameId, handDistance, isHandPresent, lastPredict>>
    /\ UNCHANGED <<motionVars, propVars, poolVars, beadVars, frames>>

\* onloadedmetadata: play() and resolve(); with videoRef.current null the
\* handler throws before resolve() and the setup never continues
LoadedMetadata ==
    /\ setupPc = "loadedmetadata"
    /\ stream = "live"
    /\ setupPc' = IF appMounted THEN "initLandmarker" ELSE "aborted"
    /\ UNCHANGED <<appMounted, stream, srcObject, videoReady, landmarker,
                   animationFrameId, handDistance, isHandPresent, loading, error, lastPredict>>
    /\ UNCHANGED <<motionVars, propVars, renderPending, poolVars, beadVars, frames>>

\* The video element gets a frame of the live stream (readyState >= 2)
VideoData ==
    /\ srcObject /\ stream = "live" /\ ~videoReady
    /\ setupPc # "loadedmetadata"
    /\ videoReady' = TRUE
    /\ UNCHANGED <<appMounted, setupPc, stream, srcObject, landmarker,
                   animationFrameId, handDistance, isHandPresent, loading, error, lastPredict>>
    /\ UNCHANGED <<motionVars, propVars, renderPending, poolVars, beadVars, frames>>

\* The camera track ends by itself (device unplugged, permission revoked): the
\* video element has no current frame any more (readyState < 2)
TrackEnded ==
    /\ stream = "live"
    /\ stream' = "ended"
    /\ videoReady' = FALSE
    /\ UNCHANGED <<appMounted, setupPc, srcObject, landmarker,
                   animationFrameId, handDistance, isHandPresent, loading, error, lastPredict>>
    /\ UNCHANGED <<motionVars, propVars, renderPending, poolVars, beadVars, frames>>

\* initializeHandLandmarker resolves: setLoading(false), the first predict()
\* call and its requestAnimationFrame
LandmarkerLoaded(res) ==
    /\ setupPc = "initLandmarker"
    /\ setupPc' = "predicting"
    /\ landmarker' = TRUE
    /\ animationFrameId' = TRUE
    /\ LET p == PredictBody(appMounted, TRUE, res)
       IN  /\ isHandPresent' = p.present
           /\ handDistance' = p.distance
           /\ lastPredict' = p.guard
           /\ loading' = IF appMounted THEN FALSE ELSE loading
           /\ renderPending' =
                (renderPending \/ (appMounted /\
                    (loading \/ p.present # isHandPresent \/ p.distance # handDistance)))
    /\ UNCHANGED <<appMounted, stream, srcObject, videoReady, error>>
    /\ UNCHANGED <<motionVars, propVars, poolVars, beadVars, frames>>

\* initializeHandLandmarker rejects: nothing catches it, predict never starts
LandmarkerFailed ==
    /\ setupPc = "initLandmarker"
    /\ setupPc' = "failed"
    /\ UNCHANGED <<appMounted, stream, srcObject, videoReady, landmarker,
                   animationFrameId, handDistance, isHandPresent, loading, error, lastPredict>>
    /\ UNCHANGED <<motionVars, propVars, renderPending, poolVars, beadVars, frames>>

\* One scheduled run of predict, which schedules the next.  React renders a
\* scheduled update before the next animation-frame callback runs.
Predict(res) ==
    /\ animationFrameId /\ ~renderPending
    /\ LET p == PredictBody(appMounted, landmarker, res)
       IN  /\ isHandPresent' = p.present
           /\ handDistance' = p.distance
           /\ lastPredict' = p.guard
           /\ renderPending' =
                (renderPending \/ (p.present # isHandPresent \/ p.distance # handDistance))
    /\ UNCHANGED <<appMounted, setupPc, stream, srcObject, videoReady, landmarker,
                   animationFrameId, loading, error>>
    /\ UNCHANGED <<motionVars, propVars, poolVars, beadVars, frames>>

\* App unmounts and the effect's cleanup runs.  React clears videoRef.current on
\* unmount; whether the cleanup still sees the element depends on the React
\* version (seesRef).  The Canvas unmounts with App.
Cleanup(seesRef) ==
    /\ appMounted
    /\ appMounted' = FALSE
    /\ stream' = IF seesRef /\ srcObject /\ stream = "live" THEN "stopped" ELSE stream
    /\ animationFrameId' = FALSE
    /\ SceneDiscarded
    /\ UNCHANGED <<setupPc, srcObject, videoReady, landmarker, handDistance,
                   isHandPresent, loading, error, lastPredict>>

-----------------------------------------------------------------------------
\* DigitalBracelet

\* The mount effect: setBackgroundLetters(initialBg) with the 50 ambient letters
AmbientEffect ==
    /\ appMounted /\ ~ambientDone
    /\ ambientDone' = TRUE
    /\ updateQueue' = Append(updateQueue, [fn |-> "set", arg |-> InitialBg])
    /\ renderPending' = TRUE
    /\ UNCHANGED <<backgroundLetters, emitSeq>>
    /\ UNCHANGED <<appVars, motionVars, propVars, beadVars, frames>>

\* One render of DigitalBracelet with the props (present, distance): the queued
\* pool updates are applied, and every Bead gets the refs' current values as props
RenderScene(present, distance) ==
    /\ propIsHandPresent' = present
    /\ propHandDistance' = distance
    /\ rotationVal' = rotationSpeedRef
    /\ isScattered' = isScatteredRef
    /\ backgroundLetters' = ApplyUpdates(backgroundLetters, updateQueue)
    /\ updateQueue' = <<>>
    /\ renderPending' = FALSE
    /\ UNCHANGED <<ambientDone, emitSeq>>
    /\ UNCHANGED <<motionVars, beadVars, frames>>

\* React renders the pending state updates of App and DigitalBracelet
Render ==
    /\ appMounted /\ renderPending
    /\ RenderScene(isHandPresent, handDistance)
    /\ UNCHANGED appVars

\* The time a bead's emit check sees in a frame that comes delta ms after the last
Elapsed(b, delta) == Min(sinceLastEmit[b] + delta, SinceCap)

\* The beads whose useFrame calls onEmitLetter in this frame
Emitters(delta) ==
    {b \in Beads : ShouldEmit(rotationVal, isScattered, Elapsed(b, delta))}

\* The letters handleEmitLetter has created so far whose update is rendered
Committed ==
    emitSeq - Cardinality({i \in DOMAIN updateQueue : updateQueue[i].fn = "emit"})

\* Date.now() during the current frame, in ms: the same for every letter of
\* the frame and later than in every earlier frame.  The number of letters
\* the earlier frames created stands for it.
DateNow == Committed

\* The beads' useFrame callbacks run in ring order; each emitter calls
\* handleEmitLetter, in the millisecond now and with its draw of Math.random()
RECURSIVE BeadsEmit(_, _, _, _, _, _)
BeadsEmit(queue, n, b, emitters, now, draws) ==
    IF b > BEAD_COUNT THEN queue
    ELSE IF b \in emitters
         THEN BeadsEmit(HandleEmitLetter(queue, n, b, now, draws[b]),
                        n + 1, b + 1, emitters, now, draws)
         ELSE BeadsEmit(queue, n, b + 1, emitters, now, draws)

\* The useFrame callback of DigitalBracelet, run with the props (present, distance)
MapperCallback(present, distance) ==
    LET m == Mapper(rotationSpeedRef, present, distance)
    IN  /\ rotationSpeedRef' = m.speed
        /\ isScatteredRef' = m.scattered

\* One frame of the render loop, delta ms after the last: the Mapper and every
\* Bead run their useFrame callback; scatterDist is 5 + sin(..) * 2 at this
\* time, draws what Math.random() gives each bead that emits
Frame(delta, scatterDist, draws) ==
    /\ appMounted /\ ambientDone /\ ~renderPending
    /\ clockDelta' = delta
    /\ MapperCallback(propIsHandPresent, propHandDistance)
    /\ LET emitters == Emitters(delta)
           intensity == ScatterIntensity(propIsHandPresent, propHandDistance)
       IN  /\ letters' = [b \in Beads |->
                  AnimateBead(letters[b], isScattered, intensity, scatterDist)]
           /\ sinceLastEmit' = [b \in Beads |->
                  IF b \in emitters THEN 0 ELSE Elapsed(b, delta)]
           /\ updateQueue' = BeadsEmit(updateQueue, emitSeq, 1, emitters, DateNow, draws)
           /\ emitSeq' = emitSeq + Cardinality(emitters)
           /\ renderPending' = (emitters # {})
    /\ UNCHANGED <<backgroundLetters, ambientDone>>
    /\ UNCHANGED <<appVars, propVars>>

\* One frame of the whole program; the beads' random draws do not repeat
FrameStep ==
    /\ frames < MaxFrames
    /\ \E delta \in Deltas, scatterDist \in ScatterDists :
          Frame(delta, scatterDist, DistinctDraws)
    /\ frames' = frames + 1

PredictStep == \E res \in Detections : Predict(res)
LandmarkerLoadedStep == \E res \in Detections : LandmarkerLoaded(res)
CleanupStep == \E seesRef \in BOOLEAN : Cleanup(seesRef)

Next ==
    \/ CameraGranted
    \/ CameraDenied
    \/ LoadedMetadata
    \/ VideoData
    \/ TrackEnded
    \/ LandmarkerLoadedStep
    \/ LandmarkerFailed
    \/ PredictStep
    \/ CleanupStep
    \/ AmbientEffect
    \/ Render
    \/ FrameStep

Spec == Init /\ [][Next]_vars

-----------------------------------------------------------------------------
\* The Mapper on its own: DigitalBracelet rendered with any props, frame after frame
MapperFrame(present, distance) ==
    /\ appMounted
    /\ propIsHandPresent' = present
    /\ propHandDistance' = distance
    /\ MapperCallback(present, distance)
    /\ UNCHANGED <<rotationVal, isScattered, renderPending, poolVars, beadVars, frames>>
    /\ UNCHANGED appVars

NextMapper == \E present \in BOOLEAN, distance \in SceneDistances :
                  MapperFrame(present, distance)

SpecMapper == Init /\ [][NextMapper]_vars

\* The same under the render loop, which keeps running frames
SpecMapperLoop == Init /\ [][NextMapper]_vars /\ WF_vars(NextMapper)

-----------------------------------------------------------------------------
\* The pool on its own: the ambient batch, then any number of emitted letters,
\* up to BEAD_COUNT of them between two renders, each call of handleEmitLetter
\* in a millisecond of its own and with its own draw of Math.random()
EmitLetter ==
    /\ appMounted /\ ambientDone
    /\ emitSeq < MaxEmit
    /\ Len(updateQueue) < BEAD_COUNT
    /\ LET origin == (emitSeq % BEAD_COUNT) + 1
       IN  updateQueue' = HandleEmitLetter(updateQueue, emitSeq, origin, emitSeq, origin)
    /\ emitSeq' = emitSeq + 1
    /\ renderPending' = TRUE
    /\ UNCHANGED <<backgroundLetters, ambientDone>>
    /\ UNCHANGED <<appVars, motionVars, propVars, beadVars, frames>>

NextPool == AmbientEffect \/ EmitLetter \/ Render

SpecPool == Init /\ [][NextPool]_vars

-----------------------------------------------------------------------------
\* The round trip of the letters: the scene from the moment the setup is done
\* and the first predict() has found an open hand (distance 0.2), no frame
\* having run yet; from then on the hand stays in view, open or half open.
\* The render loop runs a frame whenever it can and React renders every
\* scheduled update; the hand may stay as it is for ever.
RoundTripStart ==
    /\ appMounted = TRUE
    /\ setupPc = "predicting"
    /\ stream = "live"
    /\ srcObject = TRUE
    /\ videoReady = TRUE
    /\ landmarker = TRUE
    /\ animationFrameId = TRUE
    /\ handDistance = 20
    /\ isHandPresent = TRUE
    /\ loading = FALSE
    /\ error = FALSE
    /\ lastPredict = "signal"
    /\ rotationSpeedRef = 0
    /\ isScatteredRef = FALSE
    /\ propHandDistance = 20
    /\ propIsHandPresent = TRUE
    /\ rotationVal = 0
    /\ isScattered = FALSE
    /\ renderPending = FALSE
    /\ backgroundLetters = InitialBg
    /\ updateQueue = <<>>
    /\ ambientDone = TRUE
    /\ emitSeq = 0
    /\ sinceLastEmit = [b \in Beads |-> 0]
    /\ letters = [b \in Beads |-> [i \in LetterIdx |-> [off |-> 0, tumble |-> 0]]]
    /\ clockDelta = 0
    /\ frames = 0

HandInView == {[found |-> TRUE, distance |-> d] : d \in {12, 20}}

PredictInView == \E res \in HandInView : Predict(res)

FrameRun ==
    /\ \E delta \in Deltas, scatterDist \in ScatterDists :
          Frame(delta, scatterDist, DistinctDraws)
    /\ UNCHANGED frames

NextRoundTrip == PredictInView \/ Render \/ FrameRun

SpecRoundTrip ==
    /\ RoundTripStart
    /\ [][NextRoundTrip]_vars
    /\ WF_vars(FrameRun)
    /\ WF_vars(Render)

-----------------------------------------------------------------------------
\* The Mapper rendered with a malformed distance among its props: the scene is
\* a component, and takes whatever number its parent hands it
MalformedDistances == {0 - 5}

NextMalformed ==
    \E present \in BOOLEAN, distance \in SceneDistances \cup MalformedDistances :
        MapperFrame(present, distance)

SpecMalformed == Init /\ [][NextMalformed]_vars

-----------------------------------------------------------------------------
\* A sustained pinch: the scene from the moment the setup is done and the first
\* predict() has found a pinching hand (distance 0.03), its render still to
\* come and no frame having run yet; from then on every predict() finds the
\* hand at the same distance.
PinchStart ==
    /\ appMounted = TRUE
    /\ setupPc = "predicting"
    /\ stream = "live"
    /\ srcObject = TRUE
    /\ videoReady = TRUE
    /\ landmarker = TRUE
    /\ animationFrameId = TRUE
    /\ handDistance = 3
    /\ isHandPresent = TRUE
    /\ loading = FALSE
    /\ error = FALSE
    /\ lastPredict = "signal"
    /\ rotationSpeedRef = 0
    /\ isScatteredRef = FALSE
    /\ propHandDistance = DEFAULT_DISTANCE
    /\ propIsHandPresent = FALSE
    /\ rotationVal = 0
    /\ isScattered = FALSE
    /\ renderPending = TRUE
    /\ backgroundLetters = InitialBg
    /\ updateQueue = <<>>
    /\ ambientDone = TRUE
    /\ emitSeq = 0
    /\ sinceLastEmit = [b \in Beads |-> 0]
    /\ letters = [b \in Beads |-> [i \in LetterIdx |-> [off |-> 0, tumble |-> 0]]]
    /\ clockDelta = 0
    /\ frames = 0

PredictPinch == Predict([found |-> TRUE, distance |-> 3])

NextPinch == PredictPinch \/ Render \/ FrameRun

SpecPinch ==
    /\ PinchStart
    /\ [][NextPinch]_vars
    /\ WF_vars(FrameRun)
    /\ WF_vars(Render)

-----------------------------------------------------------------------------
\* No hand ever: the whole program with a landmarker that never finds landmarks
NoHand == [found |-> FALSE, distance |-> 0]

NextAbsent ==
    \/ CameraGranted
    \/ CameraDenied
    \/ LoadedMetadata
    \/ VideoData
    \/ TrackEnded
    \/ LandmarkerLoaded(NoHand)
    \/ LandmarkerFailed
    \/ Predict(NoHand)
    \/ CleanupStep
    \/ AmbientEffect
    \/ Render
    \/ FrameStep

SpecAbsent == Init /\ [][NextAbsent]_vars

-----------------------------------------------------------------------------
\* A sustained open hand: the scene from the moment the setup is done and the
\* first predict() has found an open hand (distance 0.2), its render still to
\* come, no frame having run yet and the letters on their beads; from then on
\* every predict() finds the hand at the same distance, for ScatterFrames frames.
OpenHandStart ==
    /\ appMounted = TRUE
    /\ setupPc = "predicting"
    /\ stream = "live"
    /\ srcObject = TRUE
    /\ videoReady = TRUE
    /\ landmarker = TRUE
    /\ animationFrameId = TRUE
    /\ handDistance = 20
    /\ isHandPresent = TRUE
    /\ loading = FALSE
    /\ error = FALSE
    /\ lastPredict = "signal"
    /\ rotationSpeedRef = 0
    /\ isScatteredRef = FALSE
    /\ propHandDistance = DEFAULT_DISTANCE
    /\ propIsHandPresent = FALSE
    /\ rotationVal = 0
    /\ isScattered = FALSE
    /\ renderPending = TRUE
    /\ backgroundLetters = InitialBg
    /\ updateQueue = <<>>
    /\ ambientDone = TRUE
    /\ emitSeq = 0
    /\ sinceLastEmit = [b \in Beads |-> 0]
    /\ letters = [b \in Beads |-> [i \in LetterIdx |-> [off |-> 0, tumble |-> 0]]]
    /\ clockDelta = 0
    /\ frames = 0

PredictOpenHand == Predict([found |-> TRUE, distance |-> 20])

ScatterFrame ==
    /\ frames < ScatterFrames
    /\ \E delta \in Deltas, scatterDist \in ScatterDists :
          Frame(delta, scatterDist, DistinctDraws)
    /\ frames' = frames + 1

NextScatter == PredictOpenHand \/ Render \/ ScatterFrame

SpecScatter == OpenHandStart /\ [][NextScatter]_vars

-----------------------------------------------------------------------------
\* The whole program with Math.random() free to repeat a value within a frame
FrameStepAnyDraws ==
    /\ frames < MaxFrames
    /\ \E delta \in Deltas, scatterDist \in ScatterDists, draws \in RandomDraws :
          Frame(delta, scatterDist, draws)
    /\ frames' = frames + 1

NextAnyDraws ==
    \/ CameraGranted
    \/ CameraDenied
    \/ LoadedMetadata
    \/ VideoData
    \/ TrackEnded
    \/ LandmarkerLoadedStep
    \/ LandmarkerFailed
    \/ PredictStep
    \/ CleanupStep
    \/ AmbientEffect
    \/ Render
    \/ FrameStepAnyDraws

SpecAnyDraws == Init /\ [][NextAnyDraws]_vars

-----------------------------------------------------------------------------
\* Properties

\* The pool as it will be once the queued updates are rendered
PoolAfterRender == ApplyUpdates(backgroundLetters, updateQueue)

\* C1: once the ambient batch is installed, and after any sequence of emitted
\* letters (several between two renders included), the pool never holds more
\* than 81 letters: the 80 most recent earlier ones and the new one.
PoolNeverExceedsCap ==
    /\ Len(backgroundLetters) <= POOL_WINDOW + 1
    /\ Len(PoolAfterRender) <= POOL_WINDOW + 1

\* C1 witness: the pool is full and emitted letters have already evicted all
\* ambient ones
PoolFullOfEmitted ==
    /\ Len(backgroundLetters) = POOL_WINDOW + 1
    /\ backgroundLetters[1].id[1] = "emit"

\* C2: from rotationSpeed = 0, whatever the inputs of each frame, every Mapper
\* update leaves 0 <= rotationSpeed <= 2.0, and moves rotationSpeed towards the
\* target of the frame without passing it.
TargetOf(present, distance) ==
    IF ~present THEN IDLE_SPEED
    ELSE IF distance > SCATTER_THRESHOLD THEN 0
    ELSE IF distance < PINCH_THRESHOLD THEN PINCH_SPEED
    ELSE 0

SpeedStaysInRange ==
    /\ [](rotationSpeedRef >= 0 /\ rotationSpeedRef <= PINCH_SPEED)
    /\ [][LET target == TargetOf(propIsHandPresent', propHandDistance')
          IN  /\ Min(rotationSpeedRef, target) <= rotationSpeedRef'
              /\ rotationSpeedRef' <= Max(rotationSpeedRef, target)]_vars

\* C2 witness: sustained pinching has brought the speed close to 2.0
SpeedNearMax == rotationSpeedRef > PINCH_SPEED - 50

\* C3: one Mapper update is the reference policy in priority order (absent:
\* 0.2 at 0.05; distance > 0.18: scattered, 0 at 0.1; distance < 0.06: 2.0 at
\* 0.05; else 0 at 0.05) with rotationSpeed' = rotationSpeed + (target -
\* rotationSpeed) * factor; scattered holds after it iff the hand is present
\* and distance > 0.18.
FactorOf(present, distance) ==
    IF ~present THEN 50
    ELSE IF distance > SCATTER_THRESHOLD THEN 100
    ELSE 50

MapperFollowsPolicy ==
    [][LET present == propIsHandPresent'
           distance == propHandDistance'
           target == TargetOf(present, distance)
           factor == FactorOf(present, distance)
       IN  /\ rotationSpeedRef' =
                rotationSpeedRef + ((target - rotationSpeedRef) * factor) \div 1000
           /\ isScatteredRef' = (present /\ distance > SCATTER_THRESHOLD)]_vars

\* C3 witness: the Mapper has run with the hand exactly at the scatter threshold
\* and exactly at the pinch threshold, and took the intermediate branch: not
\* scattered, speed decaying from a positive value
AtScatterThreshold ==
    /\ propIsHandPresent /\ propHandDistance = SCATTER_THRESHOLD
    /\ ~isScatteredRef /\ rotationSpeedRef > 0

\* The order of creation of a pool's letters
Serials(pool) == [i \in DOMAIN pool |-> pool[i].seq]

\* The ambient batch followed by the first c emitted letters, in order of creation
PoolHistory(c) == [n \in 1..(AMBIENT_COUNT + c) |-> n - 1 - AMBIENT_COUNT]

\* C7: each insertion yields the last min(|P|, 80) letters of P in order, then
\* the new letter: the pool is always the newest end of the sequence "ambient
\* batch, then every emitted letter"; nothing is evicted during the first 31
\* insertions and no ambient letter is left after 81.
PoolIsNewestWindow ==
    backgroundLetters # <<>> =>
        LET c == Committed
            h == PoolHistory(c)
            n == Min(Len(h), POOL_WINDOW + 1)
        IN  /\ Serials(backgroundLetters) = SubSeq(h, Len(h) - n + 1, Len(h))
            /\ c <= POOL_WINDOW + 1 - AMBIENT_COUNT
                 => SubSeq(backgroundLetters, 1, AMBIENT_COUNT) = InitialBg
            /\ c >= POOL_WINDOW + 1
                 => \A i \in DOMAIN backgroundLetters :
                        backgroundLetters[i].id[1] = "emit"
            /\ c >= 1 => backgroundLetters[Len(backgroundLetters)].seq = c - 1

\* C7 witness: 81 insertions are rendered and the last ambient letter is gone
AmbientAllEvicted ==
    /\ Committed = POOL_WINDOW + 1
    /\ Len(backgroundLetters) = POOL_WINDOW + 1
    /\ backgroundLetters[1].seq = 0

\* A step that is one frame of the render loop
IsFrame == frames' = frames + 1

\* C4: in every frame the Mapper writes MotionState before any bead reads it:
\* the rotationVal and isScattered a Bead's update uses are the values the
\* Mapper produced in that same frame.
BeadsReadThisFramesMotion ==
    [][IsFrame => /\ rotationVal = rotationSpeedRef'
                  /\ isScattered = isScatteredRef']_vars

\* C5: a bead emits a letter in a frame only if MotionState in that frame (as
\* the frame found it, or as the Mapper left it) has rotationSpeed > 0.01 and
\* scattered = false.
EmitsOnlyWhenMotionAllows ==
    [][(IsFrame /\ emitSeq' > emitSeq) =>
          \/ rotationSpeedRef > EMIT_MIN_SPEED /\ ~isScatteredRef
          \/ rotationSpeedRef' > EMIT_MIN_SPEED /\ ~isScatteredRef']_vars

\* The letters bead b has put in the queue during the step
EmittedBy(b) ==
    Cardinality({i \in DOMAIN updateQueue' :
                    i > Len(updateQueue) /\ updateQueue'[i].arg.origin = b})

\* C6: for each bead and each frame in which the bead's emission is eligible
\* (its rotation input rotationVal > 0.01 and its isScattered input false): if
\* now - lastEmitTime > 1 / (rotationVal * 10 + 0.1) it emits exactly one
\* letter and lastEmitTime becomes now (nothing has elapsed since); otherwise
\* it emits nothing and lastEmitTime stays.  gap is now - lastEmitTime in ms.
EmitsOncePerInterval ==
    [][IsFrame =>
        \A b \in Beads :
            LET gap == Min(sinceLastEmit[b] + clockDelta', SinceCap)
                eligible == rotationVal > EMIT_MIN_SPEED /\ ~isScattered
                due == gap * (rotationVal * 10 + 100) > 1000 * 1000
            IN  IF eligible /\ due
                THEN EmittedBy(b) = 1 /\ sinceLastEmit'[b] = 0
                ELSE EmittedBy(b) = 0 /\ sinceLastEmit'[b] = gap]_vars

\* C6 witness: every bead has emitted twice, and in a later frame was eligible
\* with the interval not yet over, so it did not emit
EligibleButNotDue ==
    /\ emitSeq = 2 * BEAD_COUNT
    /\ rotationVal > EMIT_MIN_SPEED /\ ~isScattered
    /\ ~renderPending
    /\ \A b \in Beads : sinceLastEmit[b] = clockDelta

\* C9: after the cleanup has run, at whatever point of the setup, no predict
\* frame is scheduled or run any more and no acquired camera track is live.
TeardownStopsGestureSource ==
    ~appMounted => (~animationFrameId /\ stream # "live")

\* C10: when the last predict run had no HandSignal (video not ready, landmarker
\* not loaded, camera failed), the presence flag is false.
NoSignalMeansAbsent ==
    lastPredict = "blind" => ~isHandPresent

\* Every BeadLetter of every bead is within epsilon of its rest position and of
\* its rest rotation
LettersAtRest ==
    \A b \in Beads : \A i \in LetterIdx :
        letters[b][i].off <= RestEpsilon /\ letters[b][i].tumble <= RestEpsilon

\* C8: if MotionState.scattered is true for some frames and then false for all
\* later frames, then eventually every BeadLetter is within epsilon of its
\* restPosition and restRotation, and stays there.
RoundTripReforms ==
    (<>isScatteredRef /\ <>[](~isScatteredRef)) => <>[]LettersAtRest

\* C11: a malformed distance (here a negative one) delivered with present=true
\* is clamped or ignored: the frame that receives it does not treat it as a
\* pinch, so it does not drive rotationSpeed towards 2.0 (at most the idle
\* branch moves the speed, towards 0.2), and rotationSpeed stays a valid speed.
MalformedDistanceNotAPinch ==
    [][(propIsHandPresent' /\ propHandDistance' \in MalformedDistances) =>
          /\ rotationSpeedRef' <= Max(rotationSpeedRef, IDLE_SPEED)
          /\ rotationSpeedRef' >= 0 /\ rotationSpeedRef' <= PINCH_SPEED]_vars

\* The distance from a target below which a smoothing step of the given factor
\* is less than one unit of speed
Resolution(factor) == 1000 \div factor

\* C12: with present=false, rotationSpeed = 0.2 is a fixed point of the Mapper
\* update; from any speed a frame with present=false multiplies the distance
\* to 0.2 by 0.95 (up to the rounding of one unit) without crossing 0.2; and
\* if present=false holds in every frame from some frame on, rotationSpeed
\* eventually stays at 0.2 (as closely as the unit resolves).
IdleConvergesToFixedPoint ==
    /\ [][~propIsHandPresent' =>
            LET e == rotationSpeedRef - IDLE_SPEED
                f == rotationSpeedRef' - IDLE_SPEED
            IN  /\ e = 0 => f = 0
                /\ e > 0 => f >= 0
                /\ e < 0 => f <= 0
                /\ 950 * e - 1000 < 1000 * f /\ 1000 * f <= 950 * e]_vars
    /\ <>[](~propIsHandPresent) =>
            <>[](/\ rotationSpeedRef <= IDLE_SPEED
                 /\ rotationSpeedRef > IDLE_SPEED - Resolution(50))

\* C12 witness: idle frames have brought a faster bracelet down to exactly 0.2
IdleSpeedReached ==
    /\ ~propIsHandPresent
    /\ rotationSpeedRef = IDLE_SPEED

\* C13: with present=true and distance=0.03 in every frame, scattered is false
\* after every frame, rotationSpeed never decreases, never exceeds 2.0 and
\* eventually stays next to 2.0, and the speed the beads compute their emission
\* interval from (so the interval 1/(speed*10 + 0.1) they apply) does too.
PinchSpeedsUpBeads ==
    /\ [](~isScatteredRef /\ rotationSpeedRef <= PINCH_SPEED)
    /\ [][rotationSpeedRef' >= rotationSpeedRef]_vars
    /\ <>[](rotationSpeedRef > PINCH_SPEED - Resolution(50))
    /\ <>[](rotationVal > PINCH_SPEED - Resolution(50))

OpenHandScattersLetters ==
    frames = ScatterFrames =>
        /\ isScatteredRef
        /\ \A b \in Beads : \A i \in LetterIdx :
              /\ letters[b][i].off > 0
              /\ letters[b][i].off < 10 * (SCATTER_BASE + SCATTER_AMPLITUDE)

\* C16: every bead has exactly LETTERS_PER_BEAD letters in every state, and a
\* re-render leaves every bead letter as it is (no letter is created again):
\* frames in either branch, emissions and renders neither add nor remove one.
BeadKeepsItsLetters ==
    /\ [](\A b \in Beads : DOMAIN letters[b] = 1..LETTERS_PER_BEAD)
    /\ [][(appMounted' /\ renderPending /\ ~renderPending') => letters' = letters]_vars

\* C16 witness: the beads have emitted, the scene has rendered the new letters,
\* and a later frame has run the scatter branch: the letters are away from rest
LettersScatteredAfterEmission ==
    /\ emitSeq > 0
    /\ Len(backgroundLetters) > AMBIENT_COUNT
    /\ \A b \in Beads : \A i \in DOMAIN letters[b] : letters[b][i].off > 0
    /\ \A b \in Beads : Len(letters[b]) = LETTERS_PER_BEAD

\* C17: at every moment all letters in the floating-letter pool have pairwise
\* distinct ids, letters emitted by several beads in the same frame and in the
\* same millisecond included.
PoolIdsDistinct ==
    \A i, j \in DOMAIN backgroundLetters :
        i # j => backgroundLetters[i].id # backgroundLetters[j].id

\* C18: when k letters (1 <= k <= 12) are inserted in the same frame, none is
\* lost or overwritten: the render of that frame leaves a pool that ends with
\* exactly those k letters in emission order, preceded by the most recent
\* min(|P|, 80 - (k - 1)) letters of the pool P as it was before the frame.
FrameInsertionsAllLand ==
    [][(/\ renderPending /\ ~renderPending' /\ appMounted'
        /\ updateQueue # <<>>
        /\ \A i \in DOMAIN updateQueue : updateQueue[i].fn = "emit")
       => LET k == Len(updateQueue)
              P == backgroundLetters
              keep == Min(Len(P), POOL_WINDOW - (k - 1))
          IN  backgroundLetters' =
                SubSeq(P, Len(P) - keep + 1, Len(P)) \o
                [i \in 1..k |-> updateQueue[i].arg]]_vars

\* C18 witness: the pool is full and all 12 beads have inserted a letter in the
\* frame that is about to be rendered
FullPoolTakesTwelve ==
    /\ Len(backgroundLetters) = POOL_WINDOW + 1
    /\ Len(updateQueue) = BEAD_COUNT
    /\ \A i \in DOMAIN updateQueue : updateQueue[i].fn = "emit"
    /\ renderPending

\* The isScattered input every bead animates with is MotionState.scattered
BeadsFollowMotionState == isScattered = isScatteredRef

\* C19: if the HandSignal (present, distance) is held constant from some frame
\* on, then eventually, and for ever after, the isScattered input of the beads
\* equals MotionState.scattered.
ConstantSignalSettlesBeads ==
    /\ <>[](isHandPresent /\ handDistance = 12) => <>[]BeadsFollowMotionState
    /\ <>[](isHandPresent /\ handDistance = 20) => <>[]BeadsFollowMotionState

====
